---- MODULE Spec2Model ----
(***************************************************************************)
(* Material UI component library MCP agent (src/src/index.ts).             *)
(*                                                                         *)
(* Strings are sequences of one-character strings, so that lower-casing,   *)
(* whitespace replacement, splitting and the regular-expression matches    *)
(* of the source are computed character by character.                      *)
(***************************************************************************)
EXTENDS Integers, Sequences, FiniteSets, TLC

VARIABLES
    components,    \* this.COMPONENTS
    componentMap,  \* this.COMPONENT_MAP
    pc,        \* per call: "idle", "awaitFetch", "awaitText", "done"
    tool,      \* per call: the tool invoked
    arg,       \* per call: the caller-supplied string (component / query)
    url,       \* per call: const url of get_component_info
    response,  \* per call: what `await fetch(url)` settled with
    html,      \* per call: what `await response.text()` settled with
    ran,       \* per call: the extraction helpers the handler has called
    ngets,     \* per call: outbound GETs issued by the call
    result,    \* per call: how the handler's promise settled
    lookups,   \* the component strings get_component_info was called with, in order
    outbound,  \* the URLs handed to fetch(), in order
    nfIn, nfKey, nfTitle, nfStage, nfIsKey   \* Name Normalizer applied on its own

vars == << components, componentMap, pc, tool, arg, url, response, html, ran, ngets, result, lookups,
           outbound, nfIn, nfKey, nfTitle, nfStage, nfIsKey >>

tableVars == << components, componentMap >>
callVars == << components, componentMap, pc, tool, arg, url, response, html, ran, ngets,
               result, lookups, outbound >>
nfVars == << nfIn, nfKey, nfTitle, nfStage, nfIsKey >>

----------------------------------------------------------------------------
(* Characters *)

UpperChars == <<"A", "B", "C", "D", "E", "F", "G", "H", "I", "J", "K", "L", "M", "N", "O", "P", "Q", "R", "S", "T", "U", "V", "W", "X", "Y", "Z">>
LowerChars == <<"a", "b", "c", "d", "e", "f", "g", "h", "i", "j", "k", "l", "m", "n", "o", "p", "q", "r", "s", "t", "u", "v", "w", "x", "y", "z">>

LowerOf == [ch \in { UpperChars[i] : i \in 1..Len(UpperChars) } |->
               LowerChars[CHOOSE i \in 1..Len(UpperChars) : UpperChars[i] = ch]]

UpperOf == [ch \in { LowerChars[i] : i \in 1..Len(LowerChars) } |->
               UpperChars[CHOOSE i \in 1..Len(LowerChars) : LowerChars[i] = ch]]

\* String.prototype.toLowerCase on one character
LowerChar(ch) == IF ch \in DOMAIN LowerOf THEN LowerOf[ch] ELSE ch

\* String.prototype.toUpperCase on one character
UpperChar(ch) == IF ch \in DOMAIN UpperOf THEN UpperOf[ch] ELSE ch

\* the characters the regular-expression class \s matches
IsWhitespace(ch) == ch \in {" ", "\t", "\n"}

IsUpper(ch) == ch \in DOMAIN LowerOf

toLowerCase(s) == [i \in 1..Len(s) |-> LowerChar(s[i])]

Range(s) == { s[i] : i \in 1..Len(s) }

\* s.includes(sub)
Includes(s, sub) ==
    \E i \in 0..(Len(s) - Len(sub)) : SubSeq(s, i + 1, i + Len(sub)) = sub

\* the least member of a non-empty set of positions
Least(positions) == CHOOSE i \in positions : \A j \in positions : i <= j

\* first position >= i that does not hold whitespace (the end of a greedy \s*)
SkipWhitespace(s, i) ==
    LET rest == { j \in i..Len(s) : ~IsWhitespace(s[j]) }
    IN  IF rest = {} THEN (IF i > Len(s) THEN i ELSE Len(s) + 1) ELSE Least(rest)

\* s.replace(/\s+/g, rep)
RECURSIVE ReplaceWhitespaceRuns(_, _)
ReplaceWhitespaceRuns(s, rep) ==
    IF s = << >> THEN << >>
    ELSE IF IsWhitespace(s[1])
         THEN rep \o ReplaceWhitespaceRuns(SubSeq(s, SkipWhitespace(s, 1), Len(s)), rep)
         ELSE << s[1] >> \o ReplaceWhitespaceRuns(Tail(s), rep)

\* s.split(sep) for a one-character separator
RECURSIVE Split(_, _)
Split(s, sep) ==
    IF \E i \in 1..Len(s) : s[i] = sep
    THEN LET i == CHOOSE k \in 1..Len(s) :
                      s[k] = sep /\ \A j \in 1..(k - 1) : s[j] # sep
         IN  << SubSeq(s, 1, i - 1) >> \o Split(SubSeq(s, i + 1, Len(s)), sep)
    ELSE << s >>

\* parts.join(sep)
RECURSIVE Join(_, _)
Join(parts, sep) ==
    IF Len(parts) = 0 THEN << >>
    ELSE IF Len(parts) = 1 THEN parts[1]
    ELSE parts[1] \o sep \o Join(Tail(parts), sep)

----------------------------------------------------------------------------
(* Static Catalog *)

COMPONENTS ==
    << <<"A", "c", "c", "o", "r", "d", "i", "o", "n">>,
       <<"A", "l", "e", "r", "t">>,
       <<"A", "p", "p", " ", "B", "a", "r">>,
       <<"A", "u", "t", "o", "c", "o", "m", "p", "l", "e", "t", "e">>,
       <<"A", "v", "a", "t", "a", "r">>,
       <<"B", "a", "c", "k", "d", "r", "o", "p">>,
       <<"B", "a", "d", "g", "e">>,
       <<"B", "o", "t", "t", "o", "m", " ", "N", "a", "v", "i", "g", "a", "t", "i", "o", "n">>,
       <<"B", "o", "x">>,
       <<"B", "r", "e", "a", "d", "c", "r", "u", "m", "b", "s">>,
       <<"B", "u", "t", "t", "o", "n">>,
       <<"B", "u", "t", "t", "o", "n", " ", "G", "r", "o", "u", "p">>,
       <<"C", "a", "r", "d">>,
       <<"C", "h", "e", "c", "k", "b", "o", "x">>,
       <<"C", "h", "i", "p">>,
       <<"C", "i", "r", "c", "u", "l", "a", "r", " ", "P", "r", "o", "g", "r", "e", "s", "s">>,
       <<"C", "l", "i", "c", "k", " ", "A", "w", "a", "y", " ", "L", "i", "s", "t", "e", "n", "e", "r">>,
       <<"C", "o", "n", "t", "a", "i", "n", "e", "r">>,
       <<"C", "S", "S", " ", "B", "a", "s", "e", "l", "i", "n", "e">>,
       <<"D", "i", "a", "l", "o", "g">>,
       <<"D", "i", "v", "i", "d", "e", "r">>,
       <<"D", "r", "a", "w", "e", "r">>,
       <<"F", "l", "o", "a", "t", "i", "n", "g", " ", "A", "c", "t", "i", "o", "n", " ", "B", "u", "t", "t", "o", "n">>,
       <<"G", "r", "i", "d">>,
       <<"I", "m", "a", "g", "e", " ", "L", "i", "s", "t">>,
       <<"L", "i", "n", "e", "a", "r", " ", "P", "r", "o", "g", "r", "e", "s", "s">>,
       <<"L", "i", "n", "k">>,
       <<"L", "i", "s", "t">>,
       <<"M", "a", "s", "o", "n", "r", "y">>,
       <<"M", "e", "n", "u">>,
       <<"M", "o", "d", "a", "l">>,
       <<"P", "a", "g", "i", "n", "a", "t", "i", "o", "n">>,
       <<"P", "a", "p", "e", "r">>,
       <<"P", "o", "p", "o", "v", "e", "r">>,
       <<"P", "o", "p", "p", "e", "r">>,
       <<"P", "o", "r", "t", "a", "l">>,
       <<"R", "a", "d", "i", "o", " ", "B", "u", "t", "t", "o", "n">>,
       <<"R", "a", "t", "i", "n", "g">>,
       <<"S", "e", "l", "e", "c", "t">>,
       <<"S", "k", "e", "l", "e", "t", "o", "n">>,
       <<"S", "l", "i", "d", "e", "r">>,
       <<"S", "n", "a", "c", "k", "b", "a", "r">>,
       <<"S", "p", "e", "e", "d", " ", "D", "i", "a", "l">>,
       <<"S", "t", "a", "c", "k">>,
       <<"S", "t", "e", "p", "p", "e", "r">>,
       <<"S", "w", "i", "t", "c", "h">>,
       <<"T", "a", "b", "l", "e">>,
       <<"T", "a", "b", "s">>,
       <<"T", "e", "x", "t", " ", "F", "i", "e", "l", "d">>,
       <<"T", "e", "x", "t", "a", "r", "e", "a", " ", "A", "u", "t", "o", "s", "i", "z", "e">>,
       <<"T", "i", "m", "e", "l", "i", "n", "e">>,
       <<"T", "o", "g", "g", "l", "e", " ", "B", "u", "t", "t", "o", "n">>,
       <<"T", "o", "o", "l", "t", "i", "p">>,
       <<"T", "r", "a", "n", "s", "f", "e", "r", " ", "L", "i", "s", "t">>,
       <<"T", "r", "e", "e", " ", "V", "i", "e", "w">>,
       <<"T", "y", "p", "o", "g", "r", "a", "p", "h", "y">> >>
COMPONENT_MAP ==
    << [category |-> <<"f", "o", "r", "m">>,
         components |-> << <<"T", "e", "x", "t", " ", "F", "i", "e", "l", "d">>,
            <<"S", "e", "l", "e", "c", "t">>,
            <<"C", "h", "e", "c", "k", "b", "o", "x">>,
            <<"R", "a", "d", "i", "o", " ", "B", "u", "t", "t", "o", "n">>,
            <<"S", "w", "i", "t", "c", "h">>,
            <<"S", "l", "i", "d", "e", "r">>,
            <<"A", "u", "t", "o", "c", "o", "m", "p", "l", "e", "t", "e">>,
            <<"T", "o", "g", "g", "l", "e", " ", "B", "u", "t", "t", "o", "n">> >>],
       [category |-> <<"i", "n", "p", "u", "t">>,
         components |-> << <<"T", "e", "x", "t", " ", "F", "i", "e", "l", "d">>,
            <<"A", "u", "t", "o", "c", "o", "m", "p", "l", "e", "t", "e">>,
            <<"S", "e", "l", "e", "c", "t">>,
            <<"T", "e", "x", "t", "a", "r", "e", "a", " ", "A", "u", "t", "o", "s", "i", "z", "e">> >>],
       [category |-> <<"b", "u", "t", "t", "o", "n">>,
         components |-> << <<"B", "u", "t", "t", "o", "n">>,
            <<"F", "l", "o", "a", "t", "i", "n", "g", " ", "A", "c", "t", "i", "o", "n", " ", "B", "u", "t", "t", "o", "n">>,
            <<"B", "u", "t", "t", "o", "n", " ", "G", "r", "o", "u", "p">>,
            <<"T", "o", "g", "g", "l", "e", " ", "B", "u", "t", "t", "o", "n">> >>],
       [category |-> <<"n", "a", "v", "i", "g", "a", "t", "i", "o", "n">>,
         components |-> << <<"A", "p", "p", " ", "B", "a", "r">>,
            <<"B", "o", "t", "t", "o", "m", " ", "N", "a", "v", "i", "g", "a", "t", "i", "o", "n">>,
            <<"B", "r", "e", "a", "d", "c", "r", "u", "m", "b", "s">>,
            <<"D", "r", "a", "w", "e", "r">>,
            <<"L", "i", "n", "k">>,
            <<"M", "e", "n", "u">>,
            <<"S", "t", "e", "p", "p", "e", "r">>,
            <<"T", "a", "b", "s">> >>],
       [category |-> <<"l", "a", "y", "o", "u", "t">>,
         components |-> << <<"B", "o", "x">>,
            <<"C", "o", "n", "t", "a", "i", "n", "e", "r">>,
            <<"G", "r", "i", "d">>,
            <<"S", "t", "a", "c", "k">>,
            <<"I", "m", "a", "g", "e", " ", "L", "i", "s", "t">>,
            <<"M", "a", "s", "o", "n", "r", "y">> >>],
       [category |-> <<"d", "a", "t", "a">>,
         components |-> << <<"T", "a", "b", "l", "e">>,
            <<"L", "i", "s", "t">>,
            <<"T", "r", "a", "n", "s", "f", "e", "r", " ", "L", "i", "s", "t">>,
            <<"T", "r", "e", "e", " ", "V", "i", "e", "w">>,
            <<"P", "a", "g", "i", "n", "a", "t", "i", "o", "n">> >>],
       [category |-> <<"f", "e", "e", "d", "b", "a", "c", "k">>,
         components |-> << <<"A", "l", "e", "r", "t">>,
            <<"B", "a", "c", "k", "d", "r", "o", "p">>,
            <<"D", "i", "a", "l", "o", "g">>,
            <<"P", "r", "o", "g", "r", "e", "s", "s">>,
            <<"C", "i", "r", "c", "u", "l", "a", "r", " ", "P", "r", "o", "g", "r", "e", "s", "s">>,
            <<"L", "i", "n", "e", "a", "r", " ", "P", "r", "o", "g", "r", "e", "s", "s">>,
            <<"S", "k", "e", "l", "e", "t", "o", "n">>,
            <<"S", "n", "a", "c", "k", "b", "a", "r">> >>],
       [category |-> <<"o", "v", "e", "r", "l", "a", "y">>,
         components |-> << <<"M", "o", "d", "a", "l">>,
            <<"P", "o", "p", "o", "v", "e", "r">>,
            <<"P", "o", "p", "p", "e", "r">>,
            <<"T", "o", "o", "l", "t", "i", "p">>,
            <<"M", "e", "n", "u">>,
            <<"D", "r", "a", "w", "e", "r">>,
            <<"D", "i", "a", "l", "o", "g">> >>],
       [category |-> <<"s", "u", "r", "f", "a", "c", "e">>,
         components |-> << <<"C", "a", "r", "d">>,
            <<"P", "a", "p", "e", "r">>,
            <<"A", "c", "c", "o", "r", "d", "i", "o", "n">> >>],
       [category |-> <<"d", "i", "s", "p", "l", "a", "y">>,
         components |-> << <<"A", "v", "a", "t", "a", "r">>,
            <<"B", "a", "d", "g", "e">>,
            <<"C", "h", "i", "p">>,
            <<"D", "i", "v", "i", "d", "e", "r">>,
            <<"T", "y", "p", "o", "g", "r", "a", "p", "h", "y">>,
            <<"T", "i", "m", "e", "l", "i", "n", "e">> >>],
       [category |-> <<"s", "e", "l", "e", "c", "t", "i", "o", "n">>,
         components |-> << <<"C", "h", "e", "c", "k", "b", "o", "x">>,
            <<"R", "a", "d", "i", "o", " ", "B", "u", "t", "t", "o", "n">>,
            <<"S", "e", "l", "e", "c", "t">>,
            <<"S", "w", "i", "t", "c", "h">>,
            <<"A", "u", "t", "o", "c", "o", "m", "p", "l", "e", "t", "e">> >>],
       [category |-> <<"n", "o", "t", "i", "f", "i", "c", "a", "t", "i", "o", "n">>,
         components |-> << <<"A", "l", "e", "r", "t">>,
            <<"S", "n", "a", "c", "k", "b", "a", "r">> >>],
       [category |-> <<"l", "o", "a", "d", "i", "n", "g">>,
         components |-> << <<"C", "i", "r", "c", "u", "l", "a", "r", " ", "P", "r", "o", "g", "r", "e", "s", "s">>,
            <<"L", "i", "n", "e", "a", "r", " ", "P", "r", "o", "g", "r", "e", "s", "s">>,
            <<"S", "k", "e", "l", "e", "t", "o", "n">>,
            <<"B", "a", "c", "k", "d", "r", "o", "p">> >>],
       [category |-> <<"u", "t", "i", "l", "i", "t", "y">>,
         components |-> << <<"C", "l", "i", "c", "k", " ", "A", "w", "a", "y", " ", "L", "i", "s", "t", "e", "n", "e", "r">>,
            <<"C", "S", "S", " ", "B", "a", "s", "e", "l", "i", "n", "e">>,
            <<"P", "o", "r", "t", "a", "l">>,
            <<"N", "o", " ", "S", "S", "R">> >>] >>

ComponentSet == { COMPONENTS[i] : i \in 1..Len(COMPONENTS) }

----------------------------------------------------------------------------
(* Name Normalizer *)

\* toKebabCase without the lower-casing
toKebabCase_noLower(name) == ReplaceWhitespaceRuns(name, <<"-">>)

toKebabCase(name) == ReplaceWhitespaceRuns(toLowerCase(name), <<"-">>)

UrlPrefix == <<"h", "t", "t", "p", "s", ":", "/", "/", "m", "u", "i", ".", "c", "o", "m", "/", "m", "a", "t", "e", "r", "i", "a", "l", "-", "u", "i", "/", "r", "e", "a", "c", "t", "-">>

getComponentUrl(component) == UrlPrefix \o toKebabCase(component) \o <<"/">>

\* Capitalize upper-casing the whole word
Capitalize_whole(w) == [i \in 1..Len(w) |-> UpperChar(w[i])]

\* w.charAt(0).toUpperCase() + w.slice(1)
Capitalize(w) == IF w = << >> THEN << >> ELSE << UpperChar(w[1]) >> \o Tail(w)

\* component.split("-").map(w => ...).join(" ")
componentTitle(component) ==
    LET words == Split(component, "-")
    IN  Join([i \in 1..Len(words) |-> Capitalize(words[i])], <<" ">>)

----------------------------------------------------------------------------
(* Regular-expression matching, as String.prototype.match computes it: the *)
(* leftmost position at which the pattern matches.  In each pattern below  *)
(* every repetition is a character class that excludes the character that *)
(* must follow it, so the match at a position is unique.                   *)

NoMatch == [matched |-> FALSE]

Match(whole, group) == [matched |-> TRUE, whole |-> whole, group |-> group]

\* a literal of a pattern with the i flag, matched at position i of s
MatchLiteral(s, i, lit) ==
    /\ i >= 1
    /\ i + Len(lit) - 1 <= Len(s)
    /\ \A k \in 1..Len(lit) : LowerChar(s[i + k - 1]) = LowerChar(lit[k])

\* the end of a greedy [^stop]* starting at i: the first position >= i that
\* holds stop, or past the end of s
RunEnd(s, i, stop) ==
    LET stops == { j \in i..Len(s) : s[j] = stop }
    IN  IF stops = {} THEN (IF i > Len(s) THEN i ELSE Len(s) + 1) ELSE Least(stops)

MetaOpen == <<"<", "m", "e", "t", "a">>
MetaName == <<"n", "a", "m", "e", "=", "\"", "d", "e", "s", "c", "r", "i", "p", "t", "i", "o", "n", "\"">>
MetaContent == <<"c", "o", "n", "t", "e", "n", "t", "=", "\"">>

\* /<meta\s+name="description"\s+content="([^"]+)"/i at position i
MetaMatchAt(s, i) ==
    LET a == i + Len(MetaOpen)
        b == SkipWhitespace(s, a)
        c == b + Len(MetaName)
        d == SkipWhitespace(s, c)
        e == d + Len(MetaContent)
        f == RunEnd(s, e, "\"")
    IN  IF /\ MatchLiteral(s, i, MetaOpen)
           /\ b > a
           /\ MatchLiteral(s, b, MetaName)
           /\ d > c
           /\ MatchLiteral(s, d, MetaContent)
           /\ f > e
           /\ f <= Len(s)
        THEN Match(SubSeq(s, i, f), SubSeq(s, e, f - 1))
        ELSE NoMatch

\* html.match(/<meta ... /i): the leftmost match
MetaMatch(s) ==
    LET hits == { i \in 1..Len(s) : MetaMatchAt(s, i).matched }
    IN  IF hits = {} THEN NoMatch ELSE MetaMatchAt(s, Least(hits))

ParaOpen == <<"<", "p">>
ParaClose == <<"<", "/", "p", ">">>

\* /<p[^>]*>([^<]+)<\/p>/i at position i
ParaMatchAt(s, i) ==
    LET g == RunEnd(s, i + Len(ParaOpen), ">")
        h == g + 1
        k == RunEnd(s, h, "<")
    IN  IF /\ MatchLiteral(s, i, ParaOpen)
           /\ g <= Len(s)
           /\ k > h
           /\ MatchLiteral(s, k, ParaClose)
        THEN Match(SubSeq(s, i, k + Len(ParaClose) - 1), SubSeq(s, h, k - 1))
        ELSE NoMatch

\* html.match(/<p ... /i): the leftmost match
ParaMatch(s) ==
    LET hits == { i \in 1..Len(s) : ParaMatchAt(s, i).matched }
    IN  IF hits = {} THEN NoMatch ELSE ParaMatchAt(s, Least(hits))

DescriptionFallback == <<"C", "o", "m", "p", "o", "n", "e", "n", "t", " ", "d", "e", "s", "c", "r", "i", "p", "t", "i", "o", "n", " ", "n", "o", "t", " ", "a", "v", "a", "i", "l", "a", "b", "l", "e">>

\* extractDescription trying the paragraph before the meta tag
extractDescription_paragraphFirst(s) ==
    LET metaMatch == MetaMatch(s)
        pMatch == ParaMatch(s)
    IN  IF pMatch.matched THEN pMatch.group
        ELSE IF metaMatch.matched THEN metaMatch.group
        ELSE DescriptionFallback

extractDescription(s) ==
    LET metaMatch == MetaMatch(s)
        pMatch == ParaMatch(s)
    IN  IF metaMatch.matched THEN metaMatch.group
        ELSE IF pMatch.matched THEN pMatch.group
        ELSE DescriptionFallback

----------------------------------------------------------------------------
(* How a piece of code ends: with a value, or with a thrown exception *)

Return(v) == [kind |-> "return", value |-> v]

Throw(e) == [kind |-> "throw", error |-> e]

Error(name, message) == [isError |-> TRUE, name |-> name, message |-> message]

\* `new RegExp(source, "i")` throws a SyntaxError when a group of the source is
\* left open or closed without having been opened.  Of the characters that
\* are special in a pattern, the component strings of this model hold only
\* parentheses.
RegExpThrows(source) ==
    \/ \E k \in 1..Len(source) :
          source[k] = "(" /\ \A j \in (k + 1)..Len(source) : source[j] # ")"
    \/ \E k \in 1..Len(source) :
          source[k] = ")" /\ \A j \in 1..(k - 1) : source[j] # "("

RegExpSyntaxError == Error("SyntaxError", "Invalid regular expression")

ImportWord == <<"i", "m", "p", "o", "r", "t">>
FromWord == <<"f", "r", "o", "m">>
PackageRoot == <<"@", "m", "u", "i", "/", "m", "a", "t", "e", "r", "i", "a", "l">>

IsQuote(s, i) == i >= 1 /\ i <= Len(s) /\ s[i] \in {"\"", "'"}

\* import\s*{[^}]*NAME[^}]*}\s*from\s*["']@mui/material["'] with the i flag, at
\* position i, for a NAME of letters
ImportMatchAt(s, i, pascalName) ==
    LET a == SkipWhitespace(s, i + Len(ImportWord))
        close == RunEnd(s, a + 1, "}")
        b == SkipWhitespace(s, close + 1)
        c == SkipWhitespace(s, b + Len(FromWord))
        d == c + 1 + Len(PackageRoot)
    IN  IF /\ MatchLiteral(s, i, ImportWord)
           /\ a <= Len(s)
           /\ s[a] = "{"
           /\ close <= Len(s)
           /\ Includes(toLowerCase(SubSeq(s, a + 1, close - 1)), toLowerCase(pascalName))
           /\ MatchLiteral(s, b, FromWord)
           /\ IsQuote(s, c)
           /\ MatchLiteral(s, c + 1, PackageRoot)
           /\ IsQuote(s, d)
        THEN Match(SubSeq(s, i, d), << >>)
        ELSE NoMatch

\* html.match(new RegExp(..., "i")): the leftmost match
ImportMatch(s, pascalName) ==
    LET hits == { i \in 1..Len(s) : ImportMatchAt(s, i, pascalName).matched }
    IN  IF hits = {} THEN NoMatch ELSE ImportMatchAt(s, Least(hits), pascalName)

DefaultImport(pascalName) ==
    <<"i", "m", "p", "o", "r", "t", " ", "{", " ">> \o pascalName \o <<" ", "}", " ", "f", "r", "o", "m", " ", "'", "@", "m", "u", "i", "/", "m", "a", "t", "e", "r", "i", "a", "l", "'", ";">>

extractImport(s, componentName) ==
    LET pascalName == ReplaceWhitespaceRuns(componentName, << >>)
        importMatch == ImportMatch(s, pascalName)
    IN  IF RegExpThrows(pascalName) THEN Throw(RegExpSyntaxError)
        ELSE IF importMatch.matched THEN Return(importMatch.whole)
        ELSE Return(DefaultImport(pascalName))

----------------------------------------------------------------------------
(* Tool results.  A text is kept as its template literal (code fences and  *)
(* the fixed trailing paragraphs left out) and the values interpolated     *)
(* into it.                                                                *)

TextResult(text) == [content |-> << [type |-> "text", text |-> text] >>]

ListText(total, componentList) ==
    [fmt |-> "# Material UI Components ({total} total)\n\n{componentList}\n\nUse get_component_info with the kebab-case name to get details.\n\nFor comprehensive MUI documentation guidance, use get_mui_guide.",
     total |-> total, componentList |-> componentList]

NotFoundText(component) ==
    [fmt |-> "Error: Component '{component}' not found. Use list_components to see available components.",
     component |-> component]

ComponentText(title, description, importStatement, u) ==
    [fmt |-> "# {componentTitle} Component\n\n{description}\n\n## Import\n{importStatement}\n\n## Documentation\nFull documentation: {url}\n\n...",
     componentTitle |-> title, description |-> description,
     importStatement |-> importStatement, url |-> u]

\* error instanceof Error ? error.message : String(error)
ErrorMessage(error) == IF error.isError THEN error.message ELSE error.str

FetchErrorText(error) ==
    [fmt |-> "Error fetching component info: {message}", message |-> ErrorMessage(error)]

NoMatchesText(query) ==
    [fmt |-> "No components found matching '{query}'.\n\nTry broader terms like: form, navigation, overlay, feedback, data, layout, input, button",
     query |-> query]

MatchesText(query, size, resultList) ==
    [fmt |-> "# Components matching \"{query}\" ({size} found)\n\n{resultList}\n\nUse get_component_info with the kebab-case name for details.",
     query |-> query, size |-> size, resultList |-> resultList]

----------------------------------------------------------------------------
(* get_component_info *)

\* ComponentInfoUrl without the closing slash of the template
ComponentInfoUrl_noSlash(component) == UrlPrefix \o component

\* const url = `https://mui.com/material-ui/react-${component}/`
ComponentInfoUrl(component) == UrlPrefix \o component \o <<"/">>

\* FetchCalls with a cache of the URLs fetched before
FetchCalls_cached(u, earlier) ==
    IF \E i \in 1..Len(earlier) : earlier[i] = u THEN << >> ELSE << u >>

\* the fetch() calls one invocation makes: one, whatever was fetched before
FetchCalls(u, earlier) == << u >>

\* ResponseOk taking every status below 500 for a success
ResponseOk_below500(r) == r.status < 500

\* response.ok
ResponseOk(r) == r.status >= 200 /\ r.status <= 299

\* Catch without its catch clause: the exception leaves the handler
Catch_rethrow(outcome) == outcome

\* try { ... } catch (error) { return <error text> }
Catch(outcome) ==
    IF outcome.kind = "throw"
    THEN Return(TextResult(FetchErrorText(outcome.error)))
    ELSE outcome

\* ExtractAndFormat reporting a URL kept in a field all calls share (the
\* URL of the latest call) in place of the call's own const url
ExtractAndFormat_sharedUrl(component, u, page) ==
    LET description == extractDescription(page)
        title == componentTitle(component)
        importStatement == extractImport(page, title)
    IN  IF importStatement.kind = "throw" THEN importStatement
        ELSE Return(TextResult(ComponentText(title, description, importStatement.value,
                                             outbound[Len(outbound)])))

\* the statements after `const html = await response.text()`
ExtractAndFormat(component, u, page) ==
    LET description == extractDescription(page)
        title == componentTitle(component)
        importStatement == extractImport(page, title)
    IN  IF importStatement.kind = "throw" THEN importStatement
        ELSE Return(TextResult(ComponentText(title, description, importStatement.value, u)))

----------------------------------------------------------------------------
(* list_components and search_components *)

\* listComponents over a catalog that lost its last two entries
listComponents_short ==
    LET short == SubSeq(COMPONENTS, 1, Len(COMPONENTS) - 2)
    IN  TextResult(ListText(Len(short),
            [i \in 1..Len(short) |->
                [name |-> short[i], kebabCase |-> toKebabCase(short[i])]]))

listComponents ==
    TextResult(ListText(Len(components),
        [i \in 1..Len(components) |->
            [name |-> components[i], kebabCase |-> toKebabCase(components[i])]]))

\* matches.add(x) for every x of items, in order, on a Set kept in insertion order
AddAll(matches, items) ==
    LET fresh == { i \in 1..Len(items) :
                     /\ items[i] \notin Range(matches)
                     /\ \A j \in 1..(i - 1) : items[j] # items[i] }
    IN  matches \o [k \in 1..Cardinality(fresh) |->
                       items[CHOOSE i \in fresh : Cardinality({ j \in fresh : j <= i }) = k]]

\* CategoryMatches with the substring test turned around
CategoryMatches_reversed(lowerQuery, category) == Includes(category, lowerQuery)

\* lowerQuery.includes(category)
CategoryMatches(lowerQuery, category) == Includes(lowerQuery, category)

\* component.toLowerCase().includes(lowerQuery)
NameMatches(lowerQuery, component) == Includes(toLowerCase(component), lowerQuery)

\* for (const [category, components] of Object.entries(this.COMPONENT_MAP)) ...
RECURSIVE SearchCategories(_, _, _)
SearchCategories(matches, lowerQuery, i) ==
    IF i > Len(componentMap) THEN matches
    ELSE SearchCategories(
            IF CategoryMatches(lowerQuery, componentMap[i].category)
            THEN AddAll(matches, componentMap[i].components)
            ELSE matches,
            lowerQuery, i + 1)

\* this.COMPONENTS.forEach((component) => ...)
SearchNames(matches, lowerQuery) ==
    LET Hit(component) == NameMatches(lowerQuery, component)
    IN  AddAll(matches, SelectSeq(components, Hit))

searchComponents(query) ==
    LET lowerQuery == toLowerCase(query)
        matches == SearchNames(SearchCategories(<< >>, lowerQuery, 1), lowerQuery)
    IN  IF Len(matches) = 0
        THEN TextResult(NoMatchesText(query))
        ELSE TextResult(MatchesText(query, Len(matches),
                [i \in 1..Len(matches) |->
                    [name |-> matches[i],
                     kebab |-> toKebabCase(matches[i]),
                     url |-> getComponentUrl(matches[i])]]))

----------------------------------------------------------------------------
(* The tool-invocation host and the documentation site *)

Calls == {"c1", "c2"}

\* the most get_component_info invocations of one run
MaxLookups == 2

NoResponse == [kind |-> "none"]
Response(status) == [kind |-> "response", status |-> status]
Rejected(error) == [kind |-> "rejected", error |-> error]
Body(text) == [kind |-> "text", text |-> text]

NoResult == [kind |-> "pending"]

Statuses == {200, 404, 500}

FetchErrors == { Error("TypeError", "fetch failed"),
                 Error("Error", "Network connection lost.") }

BodyErrors == { Error("TypeError", "Body stream error") }

FetchOutcomes == { Response(s) : s \in Statuses } \cup { Rejected(e) : e \in FetchErrors }

----------------------------------------------------------------------------
(* Documentation pages the site may serve: a head, an optional description *)
(* meta tag, optional paragraphs and an optional import statement.         *)

MetaForms == {"none", "plain", "upper", "spaced", "empty", "reversed", "viewport"}
ParaForms == {"none", "plain", "attrs", "nestedFirst"}
ImportForms == {"none", "button", "multi", "slider", "subpath"}

PageHead == <<"<", "!", "D", "O", "C", "T", "Y", "P", "E", " ", "h", "t", "m", "l", ">", "<", "h", "t", "m", "l", ">", "<", "h", "e", "a", "d", ">", "<", "t", "i", "t", "l", "e", ">", "M", "U", "I", "<", "/", "t", "i", "t", "l", "e", ">">>

MetaText == <<"D", "i", "s", "p", "l", "a", "y", "s", " ", "r", "o", "w", "s", " ", "a", "n", "d", " ", "c", "o", "l", "u", "m", "n", "s", " ", "o", "f", " ", "d", "a", "t", "a", ".">>
MetaTextUpper == <<"B", "u", "t", "t", "o", "n", "s", " ", "a", "l", "l", "o", "w", " ", "u", "s", "e", "r", "s", " ", "t", "o", " ", "t", "a", "k", "e", " ", "a", "c", "t", "i", "o", "n", "s", ".">>
MetaTextSpaced == <<"T", "e", "x", "t", " ", "F", "i", "e", "l", "d", "s", " ", "l", "e", "t", " ", "u", "s", "e", "r", "s", " ", "e", "n", "t", "e", "r", " ", "t", "e", "x", "t", ".">>

MetaPart(form) ==
    CASE form = "none" -> << >>
      [] form = "plain" ->
           <<"<", "m", "e", "t", "a", " ", "n", "a", "m", "e", "=", "\"", "d", "e", "s", "c", "r", "i", "p", "t", "i", "o", "n", "\"", " ", "c", "o", "n", "t", "e", "n", "t", "=", "\"">> \o MetaText \o <<"\"", ">">>
      [] form = "upper" ->
           <<"<", "M", "E", "T", "A", " ", "N", "A", "M", "E", "=", "\"", "d", "e", "s", "c", "r", "i", "p", "t", "i", "o", "n", "\"", " ", "C", "O", "N", "T", "E", "N", "T", "=", "\"">> \o MetaTextUpper \o <<"\"", "/", ">">>
      [] form = "spaced" ->
           <<"<", "m", "e", "t", "a", "\n", " ", " ", "n", "a", "m", "e", "=", "\"", "d", "e", "s", "c", "r", "i", "p", "t", "i", "o", "n", "\"", "\t", " ", "c", "o", "n", "t", "e", "n", "t", "=", "\"">> \o MetaTextSpaced \o <<"\"", " ", "/", ">">>
      [] form = "empty" -> <<"<", "m", "e", "t", "a", " ", "n", "a", "m", "e", "=", "\"", "d", "e", "s", "c", "r", "i", "p", "t", "i", "o", "n", "\"", " ", "c", "o", "n", "t", "e", "n", "t", "=", "\"", "\"", ">">>
      [] form = "reversed" ->
           <<"<", "m", "e", "t", "a", " ", "c", "o", "n", "t", "e", "n", "t", "=", "\"">> \o MetaText \o <<"\"", " ", "n", "a", "m", "e", "=", "\"", "d", "e", "s", "c", "r", "i", "p", "t", "i", "o", "n", "\"", ">">>
      [] form = "viewport" ->
           <<"<", "m", "e", "t", "a", " ", "n", "a", "m", "e", "=", "\"", "v", "i", "e", "w", "p", "o", "r", "t", "\"", " ", "c", "o", "n", "t", "e", "n", "t", "=", "\"", "i", "n", "i", "t", "i", "a", "l", "-", "s", "c", "a", "l", "e", "=", "1", "\"", ">">>

ParaText == <<"S", "o", "m", "e", " ", "t", "e", "x", "t">>
ParaTextSecond == <<"S", "e", "c", "o", "n", "d", " ", "t", "e", "x", "t">>

ParaPart(form) ==
    CASE form = "none" -> <<"<", "d", "i", "v", ">", "M", "U", "I", "<", "/", "d", "i", "v", ">">>
      [] form = "plain" -> <<"<", "p", ">">> \o ParaText \o <<"<", "/", "p", ">">>
      [] form = "attrs" -> <<"<", "P", " ", "c", "l", "a", "s", "s", "=", "\"", "l", "e", "a", "d", "\"", ">">> \o ParaText \o <<"<", "/", "P", ">">>
      [] form = "nestedFirst" ->
           <<"<", "p", ">", "<", "b", ">", "B", "o", "l", "d", "<", "/", "b", ">", " ", "f", "i", "r", "s", "t", "<", "/", "p", ">", "<", "p", ">">> \o ParaTextSecond \o <<"<", "/", "p", ">">>

ImportButton == <<"i", "m", "p", "o", "r", "t", " ", "{", " ", "B", "u", "t", "t", "o", "n", " ", "}", " ", "f", "r", "o", "m", " ", "'", "@", "m", "u", "i", "/", "m", "a", "t", "e", "r", "i", "a", "l", "'">>
ImportMulti == <<"i", "m", "p", "o", "r", "t", " ", "{", "B", "o", "x", ",", " ", "B", "u", "t", "t", "o", "n", "}", "f", "r", "o", "m", " ", "\"", "@", "m", "u", "i", "/", "m", "a", "t", "e", "r", "i", "a", "l", "\"">>

ImportPart(form) ==
    CASE form = "none" -> << >>
      [] form = "button" -> <<"<", "p", "r", "e", ">">> \o ImportButton \o <<";", "<", "/", "p", "r", "e", ">">>
      [] form = "multi" -> <<"<", "p", "r", "e", ">">> \o ImportMulti \o <<";", "<", "/", "p", "r", "e", ">">>
      [] form = "slider" -> <<"<", "p", "r", "e", ">", "i", "m", "p", "o", "r", "t", " ", "{", " ", "S", "l", "i", "d", "e", "r", " ", "}", " ", "f", "r", "o", "m", " ", "'", "@", "m", "u", "i", "/", "m", "a", "t", "e", "r", "i", "a", "l", "'", ";", "<", "/", "p", "r", "e", ">">>
      [] form = "subpath" -> <<"<", "p", "r", "e", ">", "i", "m", "p", "o", "r", "t", " ", "B", "u", "t", "t", "o", "n", " ", "f", "r", "o", "m", " ", "'", "@", "m", "u", "i", "/", "m", "a", "t", "e", "r", "i", "a", "l", "/", "B", "u", "t", "t", "o", "n", "'", ";", "<", "/", "p", "r", "e", ">">>

Render(d) ==
    PageHead \o MetaPart(d.meta) \o <<"<", "/", "h", "e", "a", "d", ">", "<", "b", "o", "d", "y", ">">> \o ParaPart(d.para)
        \o ImportPart(d.imp) \o <<"<", "/", "b", "o", "d", "y", ">", "<", "/", "h", "t", "m", "l", ">">>

PageDescriptors == [meta : MetaForms, para : ParaForms, imp : ImportForms]

\* the pages of the runs that are about the calls rather than the extraction
FewPages ==
    { [meta |-> "plain", para |-> "plain", imp |-> "button"],
      [meta |-> "none", para |-> "nestedFirst", imp |-> "none"],
      [meta |-> "empty", para |-> "none", imp |-> "slider"] }

BodyOutcomes(descriptors) ==
    { Body(Render(d)) : d \in descriptors } \cup { Rejected(e) : e \in BodyErrors }

FewBodies == BodyOutcomes(FewPages)

AllBodies == BodyOutcomes(PageDescriptors)

----------------------------------------------------------------------------
(* Inputs *)

FewComponents ==
    { <<"b", "u", "t", "t", "o", "n">>, <<"t", "e", "x", "t", "-", "f", "i", "e", "l", "d">>, <<"T", "e", "x", "t", " ", "F", "i", "e", "l", "d">>, <<"n", "o", "n", "e", "x", "i", "s", "t", "e", "n", "t", "-", "c", "o", "m", "p", "o", "n", "e", "n", "t">>, <<"b", "u", "t", "t", "o", "n", "(">> }

ExtractComponents == { <<"b", "u", "t", "t", "o", "n">>, <<"t", "e", "x", "t", "-", "f", "i", "e", "l", "d">>, <<"b", "u", "t", "t", "o", "n", "(">> }

FewQueries == { <<"f", "o", "r", "m">>, <<"z", "z", "z", "-", "n", "o", "n", "e", "x", "i", "s", "t", "e", "n", "t">> }

\* the longest query built from QueryChars
MaxQueryLen == 2

QueryChars == {"a", "t", "e", "l", " ", "B", "x", "i", "o", "n"}

RECURSIVE StringsUpTo(_, _)
StringsUpTo(chars, n) ==
    IF n = 0 THEN { << >> }
    ELSE LET shorter == StringsUpTo(chars, n - 1)
         IN  shorter \cup { Append(s, ch) : s \in shorter, ch \in chars }

NamedQueries ==
    { <<"f", "o", "r", "m">>, <<"F", "O", "R", "M">>, <<"f", "o", "r", "m", "s">>, <<"I", " ", "n", "e", "e", "d", " ", "a", " ", "f", "o", "r", "m">>, <<"f", "o", "r", "m", " ", "i", "n", "p", "u", "t">>, <<"b", "u", "t", "t", "o", "n">>,
      <<"z", "z", "z", "-", "n", "o", "n", "e", "x", "i", "s", "t", "e", "n", "t">>, <<"d", "a", "t", "a", " ", "t", "a", "b", "l", "e">>, <<"T", "e", "x", "t", " ", "F", "i", "e", "l", "d">>, <<"f", "e", "e", "d", "b", "a", "c", "k">>, <<"u", "t", "i", "l", "i", "t", "y">>,
      <<"p", "r", "o", "g", "r", "e", "s", "s">>, <<"n", "a", "v", "i", "g", "a", "t", "i", "o", "n">>, <<"f", "o", "r">> }

AllQueries == NamedQueries \cup StringsUpTo(QueryChars, MaxQueryLen)

NameInputs ==
    ComponentSet \cup
    { <<"T", "e", "x", "t", " ", " ", " ", "F", "i", "e", "l", "d">>, <<"T", "a", "b", "\t", "S", "e", "p", "a", "r", "a", "t", "e", "d", " ", " ", "N", "a", "m", "e">>, <<" ", "L", "e", "a", "d", "i", "n", "g">>, <<"A", "L", "L", " ", "C", "A", "P", "S">>,
      <<"t", "e", "x", "t", "-", "f", "i", "e", "l", "d">>, <<"T", "r", "a", "i", "l", "i", "n", "g", " ", "\n">> }

----------------------------------------------------------------------------
(* Initial state *)

InitCalls ==
    /\ components = COMPONENTS
    /\ componentMap = COMPONENT_MAP
    /\ pc = [c \in Calls |-> "idle"]
    /\ tool = [c \in Calls |-> "none"]
    /\ arg = [c \in Calls |-> << >>]
    /\ url = [c \in Calls |-> << >>]
    /\ response = [c \in Calls |-> NoResponse]
    /\ html = [c \in Calls |-> NoResponse]
    /\ ran = [c \in Calls |-> {}]
    /\ ngets = [c \in Calls |-> 0]
    /\ result = [c \in Calls |-> NoResult]
    /\ lookups = << >>
    /\ outbound = << >>

Init ==
    /\ InitCalls
    /\ nfIn = << >>
    /\ nfKey = << >>
    /\ nfTitle = << >>
    /\ nfStage = "off"
    /\ nfIsKey = FALSE

----------------------------------------------------------------------------
(* Tool handlers *)

\* list_components: runs to its return without suspending
ListComponents(c) ==
    /\ pc[c] = "idle"
    /\ pc' = [pc EXCEPT ![c] = "done"]
    /\ tool' = [tool EXCEPT ![c] = "list_components"]
    /\ result' = [result EXCEPT ![c] = Return(listComponents)]
    /\ UNCHANGED << arg, url, response, html, ran, ngets, lookups, outbound >>
    /\ UNCHANGED tableVars
    /\ UNCHANGED nfVars

\* search_components: runs to its return without suspending
SearchComponents(c, query) ==
    /\ pc[c] = "idle"
    /\ pc' = [pc EXCEPT ![c] = "done"]
    /\ tool' = [tool EXCEPT ![c] = "search_components"]
    /\ arg' = [arg EXCEPT ![c] = query]
    /\ result' = [result EXCEPT ![c] = Return(searchComponents(query))]
    /\ UNCHANGED << url, response, html, ran, ngets, lookups, outbound >>
    /\ UNCHANGED tableVars
    /\ UNCHANGED nfVars

\* get_component_info up to `await fetch(url)`
GetComponentInfo(c, component) ==
    /\ pc[c] = "idle"
    /\ Len(lookups) < MaxLookups
    /\ LET u == ComponentInfoUrl(component)
           calls == FetchCalls(u, outbound)
       IN  /\ url' = [url EXCEPT ![c] = u]
           /\ ngets' = [ngets EXCEPT ![c] = Len(calls)]
           /\ outbound' = outbound \o calls
    /\ pc' = [pc EXCEPT ![c] = "awaitFetch"]
    /\ tool' = [tool EXCEPT ![c] = "get_component_info"]
    /\ arg' = [arg EXCEPT ![c] = component]
    /\ lookups' = Append(lookups, component)
    /\ UNCHANGED << response, html, ran, result >>
    /\ UNCHANGED tableVars
    /\ UNCHANGED nfVars

\* the fetch settles: rejected, answered not OK, or answered OK and read on
FetchSettles(c, r) ==
    /\ pc[c] = "awaitFetch"
    /\ response' = [response EXCEPT ![c] = r]
    /\ IF r.kind = "rejected"
       THEN /\ result' = [result EXCEPT ![c] = Catch(Throw(r.error))]
            /\ pc' = [pc EXCEPT ![c] = "done"]
       ELSE IF ~ResponseOk(r)
       THEN /\ result' = [result EXCEPT ![c] = Catch(Return(TextResult(NotFoundText(arg[c]))))]
            /\ pc' = [pc EXCEPT ![c] = "done"]
       ELSE /\ result' = result
            /\ pc' = [pc EXCEPT ![c] = "awaitText"]
    /\ UNCHANGED << tool, arg, url, html, ran, ngets, lookups, outbound >>
    /\ UNCHANGED tableVars
    /\ UNCHANGED nfVars

\* response.text() settles: rejected, or the page is read and extracted from
TextSettles(c, b) ==
    /\ pc[c] = "awaitText"
    /\ html' = [html EXCEPT ![c] = b]
    /\ IF b.kind = "rejected"
       THEN /\ result' = [result EXCEPT ![c] = Catch(Throw(b.error))]
            /\ ran' = ran
       ELSE /\ result' = [result EXCEPT ![c] = Catch(ExtractAndFormat(arg[c], url[c], b.text))]
            /\ ran' = [ran EXCEPT ![c] = {"extractDescription", "extractImport"}]
    /\ pc' = [pc EXCEPT ![c] = "done"]
    /\ UNCHANGED << tool, arg, url, response, ngets, lookups, outbound >>
    /\ UNCHANGED tableVars
    /\ UNCHANGED nfVars

\* the host takes the settled result; the call's locals are gone
Deliver(c) ==
    /\ pc[c] = "done"
    /\ pc' = [pc EXCEPT ![c] = "idle"]
    /\ tool' = [tool EXCEPT ![c] = "none"]
    /\ arg' = [arg EXCEPT ![c] = << >>]
    /\ url' = [url EXCEPT ![c] = << >>]
    /\ response' = [response EXCEPT ![c] = NoResponse]
    /\ html' = [html EXCEPT ![c] = NoResponse]
    /\ ran' = [ran EXCEPT ![c] = {}]
    /\ ngets' = [ngets EXCEPT ![c] = 0]
    /\ result' = [result EXCEPT ![c] = NoResult]
    /\ UNCHANGED << lookups, outbound >>
    /\ UNCHANGED tableVars
    /\ UNCHANGED nfVars

Next ==
    \/ \E c \in Calls : ListComponents(c)
    \/ \E c \in Calls, query \in FewQueries : SearchComponents(c, query)
    \/ \E c \in Calls, component \in FewComponents : GetComponentInfo(c, component)
    \/ \E c \in Calls, r \in FetchOutcomes : FetchSettles(c, r)
    \/ \E c \in Calls, b \in FewBodies : TextSettles(c, b)
    \/ \E c \in Calls : Deliver(c)

Spec == Init /\ [][Next]_vars

----------------------------------------------------------------------------
(* Runs of one call at a time over wider inputs *)

NextSearch ==
    \/ \E query \in AllQueries : SearchComponents("c1", query)
    \/ Deliver("c1")

SpecSearch == Init /\ [][NextSearch]_vars

NextExtract ==
    \/ \E component \in ExtractComponents : GetComponentInfo("c1", component)
    \/ \E r \in FetchOutcomes : FetchSettles("c1", r)
    \/ \E b \in AllBodies : TextSettles("c1", b)
    \/ Deliver("c1")

SpecExtract == Init /\ [][NextExtract]_vars

----------------------------------------------------------------------------
(* The Name Normalizer on its own: toKebabCase applied to a name, the     *)
(* title rebuilt from the key as get_component_info rebuilds it, and the   *)
(* key given to toKebabCase again.                                         *)

InitNormalizer ==
    /\ InitCalls
    /\ nfIn \in NameInputs
    /\ nfKey = << >>
    /\ nfTitle = << >>
    /\ nfStage = "in"
    /\ nfIsKey = FALSE

ApplyToKey ==
    /\ nfStage = "in"
    /\ nfKey' = toKebabCase(nfIn)
    /\ nfStage' = "key"
    /\ UNCHANGED << nfIn, nfTitle, nfIsKey >>
    /\ UNCHANGED callVars

ApplyKeyToTitle ==
    /\ nfStage = "key"
    /\ nfTitle' = componentTitle(nfKey)
    /\ nfStage' = "title"
    /\ UNCHANGED << nfIn, nfKey, nfIsKey >>
    /\ UNCHANGED callVars

ReapplyToKey ==
    /\ nfStage = "key"
    /\ ~nfIsKey
    /\ nfIn' = nfKey
    /\ nfIsKey' = TRUE
    /\ nfStage' = "in"
    /\ UNCHANGED << nfKey, nfTitle >>
    /\ UNCHANGED callVars

NextNormalizer == ApplyToKey \/ ApplyKeyToTitle \/ ReapplyToKey

SpecNormalizer == InitNormalizer /\ [][NextNormalizer]_vars

----------------------------------------------------------------------------
(* Properties of get_component_info and list_components, under Spec *)

IsInfoCall(c) == tool[c] = "get_component_info"

Settled(c) == pc[c] = "done"

\* the text of a call that returned
TextOf(c) == result[c].value.content[1].text

ReturnedText(c) ==
    /\ result[c].kind = "return"
    /\ Len(result[c].value.content) = 1
    /\ result[c].value.content[1].type = "text"

\* the get_component_info call threw inside its try block, with this error
ThrewWith(c, e) ==
    \/ response[c] = Rejected(e)
    \/ html[c] = Rejected(e)
    \/ /\ html[c].kind = "text"
       /\ \E k \in 1..Len(arg[c]) : arg[c][k] = "("
       /\ e = Error("SyntaxError", "Invalid regular expression")

Exceptions ==
    FetchErrors \cup BodyErrors \cup { Error("SyntaxError", "Invalid regular expression") }

\* C1: every settled get_component_info call has returned one text item and
\* raised nothing to the host, whatever the component string and whatever
\* the fetch and the body read did; when an exception was thrown inside the
\* call, the returned text is the error text carrying that exception's message.
C1_NeverRaises ==
    \A c \in Calls :
        IsInfoCall(c) /\ Settled(c) =>
            /\ ReturnedText(c)
            /\ \A e \in Exceptions :
                  ThrewWith(c, e) =>
                      /\ TextOf(c).fmt = "Error fetching component info: {message}"
                      /\ TextOf(c).message = e.message

C1_Witness ==
    \E c \in Calls :
        /\ IsInfoCall(c) /\ Settled(c)
        /\ html[c] = Rejected(Error("TypeError", "Body stream error"))
        /\ ReturnedText(c)
        /\ TextOf(c).message = "Body stream error"

\* C2: a settled get_component_info call whose response was not OK (404 and
\* 500 alike) returned the fixed not-found text naming the component string
\* and list_components, without reading the body or running the extractor.
C2_NotFound ==
    \A c \in Calls :
        IsInfoCall(c) /\ Settled(c) /\ response[c].kind = "response"
        /\ response[c].status \notin 200..299 =>
            /\ ReturnedText(c)
            /\ TextOf(c).fmt = "Error: Component '{component}' not found. Use list_components to see available components."
            /\ TextOf(c).component = arg[c]
            /\ ran[c] = {}
            /\ html[c] = NoResponse

C2_Witness ==
    \E c \in Calls :
        /\ IsInfoCall(c) /\ Settled(c)
        /\ arg[c] = <<"n", "o", "n", "e", "x", "i", "s", "t", "e", "n", "t", "-", "c", "o", "m", "p", "o", "n", "e", "n", "t">>
        /\ response[c] = Response(500)
        /\ TextOf(c).component = <<"n", "o", "n", "e", "x", "i", "s", "t", "e", "n", "t", "-", "c", "o", "m", "p", "o", "n", "e", "n", "t">>
        /\ ran[c] = {}

\* C3: every get_component_info call has issued exactly one GET, also after
\* its fetch failed or was answered not OK, and the GETs sent are one per
\* call made, in call order, also when the same component was looked up before.
C3_OneGetPerCall ==
    /\ \A c \in Calls : IsInfoCall(c) => ngets[c] = 1
    /\ \A c \in Calls : ~IsInfoCall(c) => ngets[c] = 0
    /\ Len(outbound) = Len(lookups)
    /\ \A i \in 1..Len(lookups) :
          outbound[i] = <<"h", "t", "t", "p", "s", ":", "/", "/", "m", "u", "i", ".", "c", "o", "m", "/", "m", "a", "t", "e", "r", "i", "a", "l", "-", "u", "i", "/", "r", "e", "a", "c", "t", "-">> \o lookups[i] \o <<"/">>

C3_Witness ==
    \E c \in Calls :
        /\ IsInfoCall(c) /\ Settled(c)
        /\ response[c].kind = "rejected"
        /\ ngets[c] = 1
        /\ Len(lookups) = 2
        /\ lookups[1] = lookups[2]
        /\ outbound[1] = outbound[2]

IsListCall(c) == tool[c] = "list_components"

\* C5 as stated: every list_components result counts 54 components.
C5_Original ==
    \A c \in Calls :
        IsListCall(c) /\ Settled(c) =>
            TextOf(c).total = 54 /\ Len(TextOf(c).componentList) = 54

\* C5, amended: every list_components result counts and lists 56 components,
\* in the catalog's declaration order from Accordion to Typography, and any
\* two results are equal.
C5_Enumerates ==
    /\ \A c \in Calls :
          IsListCall(c) /\ Settled(c) =>
              /\ ReturnedText(c)
              /\ TextOf(c).total = 56
              /\ Len(TextOf(c).componentList) = 56
              /\ \A i \in 1..56 : TextOf(c).componentList[i].name = COMPONENTS[i]
              /\ TextOf(c).componentList[1].name = <<"A", "c", "c", "o", "r", "d", "i", "o", "n">>
              /\ TextOf(c).componentList[3] = [name |-> <<"A", "p", "p", " ", "B", "a", "r">>, kebabCase |-> <<"a", "p", "p", "-", "b", "a", "r">>]
              /\ TextOf(c).componentList[56].name = <<"T", "y", "p", "o", "g", "r", "a", "p", "h", "y">>
    /\ \A c, d \in Calls :
          IsListCall(c) /\ Settled(c) /\ IsListCall(d) /\ Settled(d) => result[c] = result[d]

C5_Witness ==
    \E c, d \in Calls :
        /\ c # d
        /\ IsListCall(c) /\ Settled(c) /\ IsListCall(d) /\ Settled(d)
        /\ TextOf(c).total = 56
        /\ TextOf(d).componentList[56].name = <<"T", "y", "p", "o", "g", "r", "a", "p", "h", "y">>

\* C6 as stated: the URL of every get_component_info call is
\* getComponentUrl of the component string.
C6_Original ==
    \A c \in Calls : IsInfoCall(c) => url[c] = getComponentUrl(arg[c])

\* C6, amended: the URL of every get_component_info call, fetched and
\* reported, is the template filled with the component string as given; it
\* is getComponentUrl of the component string when that string is already
\* in key form (toKebabCase leaves it unchanged).
C6_UrlVerbatim ==
    \A c \in Calls :
        IsInfoCall(c) =>
            /\ url[c] = <<"h", "t", "t", "p", "s", ":", "/", "/", "m", "u", "i", ".", "c", "o", "m", "/", "m", "a", "t", "e", "r", "i", "a", "l", "-", "u", "i", "/", "r", "e", "a", "c", "t", "-">> \o arg[c] \o <<"/">>
            /\ \E i \in 1..Len(outbound) : outbound[i] = url[c]
            /\ (toKebabCase(arg[c]) = arg[c] => url[c] = getComponentUrl(arg[c]))
            /\ (Settled(c) /\ html[c].kind = "text" /\ "url" \in DOMAIN TextOf(c)
                    => TextOf(c).url = url[c])

C6_Witness ==
    \E c \in Calls :
        /\ IsInfoCall(c) /\ Settled(c)
        /\ arg[c] = <<"t", "e", "x", "t", "-", "f", "i", "e", "l", "d">>
        /\ html[c].kind = "text"
        /\ TextOf(c).url = getComponentUrl(<<"T", "e", "x", "t", " ", "F", "i", "e", "l", "d">>)

----------------------------------------------------------------------------
(* Properties of search_components, under SpecSearch *)

IsSearchCall(c) == tool[c] = "search_components"

\* the components of every category whose label is inside the lower-cased
\* query, and every catalog name whose lower-cased form holds the query
ExpectedMatches(query) ==
    LET lq == toLowerCase(query)
    IN  UNION { Range(COMPONENT_MAP[i].components) :
                  i \in { j \in 1..Len(COMPONENT_MAP) :
                            Includes(lq, COMPONENT_MAP[j].category) } }
        \cup { name \in ComponentSet : Includes(toLowerCase(name), lq) }

FormCategory ==
    { <<"T", "e", "x", "t", " ", "F", "i", "e", "l", "d">>, <<"S", "e", "l", "e", "c", "t">>, <<"C", "h", "e", "c", "k", "b", "o", "x">>, <<"R", "a", "d", "i", "o", " ", "B", "u", "t", "t", "o", "n">>, <<"S", "w", "i", "t", "c", "h">>,
      <<"S", "l", "i", "d", "e", "r">>, <<"A", "u", "t", "o", "c", "o", "m", "p", "l", "e", "t", "e">>, <<"T", "o", "g", "g", "l", "e", " ", "B", "u", "t", "t", "o", "n">> }

\* C4: every search returns a text: the no-components text exactly when no
\* category label lies inside the lower-cased query and no catalog name
\* holds it, and otherwise each component of those categories and each such
\* name once and nothing else; for "form" that is the form category.
C4_SearchUnion ==
    \A c \in Calls :
        IsSearchCall(c) /\ Settled(c) =>
            /\ ReturnedText(c)
            /\ IF ExpectedMatches(arg[c]) = {}
               THEN /\ "resultList" \notin DOMAIN TextOf(c)
                    /\ TextOf(c).query = arg[c]
               ELSE /\ "resultList" \in DOMAIN TextOf(c)
                    /\ { TextOf(c).resultList[i].name :
                           i \in 1..Len(TextOf(c).resultList) } = ExpectedMatches(arg[c])
                    /\ Len(TextOf(c).resultList) = Cardinality(ExpectedMatches(arg[c]))
                    /\ TextOf(c).size = Cardinality(ExpectedMatches(arg[c]))
            /\ (arg[c] = <<"f", "o", "r", "m">> =>
                    { TextOf(c).resultList[i].name :
                        i \in 1..Len(TextOf(c).resultList) } = FormCategory)

C4_Witness ==
    \E c \in Calls :
        /\ IsSearchCall(c) /\ Settled(c)
        /\ arg[c] = <<"I", " ", "n", "e", "e", "d", " ", "a", " ", "f", "o", "r", "m">>
        /\ TextOf(c).size = 8
        /\ TextOf(c).resultList[1].name = <<"T", "e", "x", "t", " ", "F", "i", "e", "l", "d">>

----------------------------------------------------------------------------
(* Properties of the Content Extractor, under SpecExtract *)

Rendered == [d \in PageDescriptors |-> Render(d)]

\* the component block was returned
ReturnedBlock(c) == ReturnedText(c) /\ "importStatement" \in DOMAIN TextOf(c)

\* what the page was built to describe itself as, given the last resort
ExpectedDescription(d, lastResort) ==
    CASE d.meta = "plain" -> MetaText
      [] d.meta = "upper" -> MetaTextUpper
      [] d.meta = "spaced" -> MetaTextSpaced
      [] d.meta \notin {"plain", "upper", "spaced"} /\ d.para \in {"plain", "attrs"} -> ParaText
      [] d.meta \notin {"plain", "upper", "spaced"} /\ d.para = "nestedFirst" -> ParaTextSecond
      [] OTHER -> lastResort

DescriptionsAre(lastResort) ==
    \A c \in Calls :
        IsInfoCall(c) /\ Settled(c) /\ html[c].kind = "text" /\ ReturnedBlock(c) =>
            \A d \in PageDescriptors :
                html[c].text = Rendered[d] =>
                    TextOf(c).description = ExpectedDescription(d, lastResort)

\* C7 as stated: without a meta description and without a simple paragraph
\* the description is "Component description not available." with its period.
C7_Original == DescriptionsAre(<<"C", "o", "m", "p", "o", "n", "e", "n", "t", " ", "d", "e", "s", "c", "r", "i", "p", "t", "i", "o", "n", " ", "n", "o", "t", " ", "a", "v", "a", "i", "l", "a", "b", "l", "e", ".">>)

\* C7, amended: the description is the content of the page's meta
\* description tag (name before content, content not empty, any letter
\* case); without one, the text of the first paragraph that holds text and
\* no markup; without that, "Component description not available" with no
\* period at its end.
C7_DescriptionChain == DescriptionsAre(<<"C", "o", "m", "p", "o", "n", "e", "n", "t", " ", "d", "e", "s", "c", "r", "i", "p", "t", "i", "o", "n", " ", "n", "o", "t", " ", "a", "v", "a", "i", "l", "a", "b", "l", "e">>)

C7_Witness ==
    \E c \in Calls :
        /\ IsInfoCall(c) /\ Settled(c) /\ ReturnedBlock(c)
        /\ html[c].text = Rendered[[meta |-> "reversed", para |-> "none", imp |-> "button"]]
        /\ TextOf(c).description = <<"C", "o", "m", "p", "o", "n", "e", "n", "t", " ", "d", "e", "s", "c", "r", "i", "p", "t", "i", "o", "n", " ", "n", "o", "t", " ", "a", "v", "a", "i", "l", "a", "b", "l", "e">>

\* the import statement the page was built to show for the component
ExpectedImport(d, component) ==
    CASE component = <<"b", "u", "t", "t", "o", "n">> /\ d.imp = "button" -> <<"i", "m", "p", "o", "r", "t", " ", "{", " ", "B", "u", "t", "t", "o", "n", " ", "}", " ", "f", "r", "o", "m", " ", "'", "@", "m", "u", "i", "/", "m", "a", "t", "e", "r", "i", "a", "l", "'">>
      [] component = <<"b", "u", "t", "t", "o", "n">> /\ d.imp = "multi" -> <<"i", "m", "p", "o", "r", "t", " ", "{", "B", "o", "x", ",", " ", "B", "u", "t", "t", "o", "n", "}", "f", "r", "o", "m", " ", "\"", "@", "m", "u", "i", "/", "m", "a", "t", "e", "r", "i", "a", "l", "\"">>
      [] component = <<"b", "u", "t", "t", "o", "n">> /\ d.imp \notin {"button", "multi"} ->
             <<"i", "m", "p", "o", "r", "t", " ", "{", " ", "B", "u", "t", "t", "o", "n", " ", "}", " ", "f", "r", "o", "m", " ", "'", "@", "m", "u", "i", "/", "m", "a", "t", "e", "r", "i", "a", "l", "'", ";">>
      [] component = <<"t", "e", "x", "t", "-", "f", "i", "e", "l", "d">> -> <<"i", "m", "p", "o", "r", "t", " ", "{", " ", "T", "e", "x", "t", "F", "i", "e", "l", "d", " ", "}", " ", "f", "r", "o", "m", " ", "'", "@", "m", "u", "i", "/", "m", "a", "t", "e", "r", "i", "a", "l", "'", ";">>
      [] OTHER -> <<"i", "m", "p", "o", "r", "t", " ", "{", " ">> \o ReplaceWhitespaceRuns(componentTitle(component), << >>)
                      \o <<" ", "}", " ", "f", "r", "o", "m", " ", "'", "@", "m", "u", "i", "/", "m", "a", "t", "e", "r", "i", "a", "l", "'", ";">>

\* C8 as stated: every get_component_info call whose response was OK and
\* whose body was read returned the component block, with the description
\* pass and the import pass each giving its own match or fallback.
C8_Original ==
    \A c \in Calls :
        IsInfoCall(c) /\ Settled(c) /\ html[c].kind = "text" =>
            /\ ReturnedBlock(c)
            /\ \A d \in PageDescriptors :
                  html[c].text = Rendered[d] =>
                      /\ TextOf(c).importStatement = ExpectedImport(d, arg[c])
                      /\ TextOf(c).description =
                            ExpectedDescription(d, <<"C", "o", "m", "p", "o", "n", "e", "n", "t", " ", "d", "e", "s", "c", "r", "i", "p", "t", "i", "o", "n", " ", "n", "o", "t", " ", "a", "v", "a", "i", "l", "a", "b", "l", "e">>)

----------------------------------------------------------------------------
(* Properties of the Name Normalizer, under SpecNormalizer *)

CssBaseline == <<"C", "S", "S", " ", "B", "a", "s", "e", "l", "i", "n", "e">>

\* C9 as stated: the title rebuilt from the key of a catalog name is the name.
C9_Original ==
    nfStage = "title" /\ nfIn \in ComponentSet => nfTitle = nfIn

\* C9, amended: the title rebuilt from the key of a catalog name is the
\* name, for every catalog name but "CSS Baseline", whose title comes back
\* as "Css Baseline".
C9_RoundTrip ==
    nfStage = "title" /\ nfIn \in ComponentSet =>
        IF nfIn = CssBaseline THEN nfTitle = <<"C", "s", "s", " ", "B", "a", "s", "e", "l", "i", "n", "e">> ELSE nfTitle = nfIn

C9_Witness ==
    /\ nfStage = "title"
    /\ nfIn = <<"F", "l", "o", "a", "t", "i", "n", "g", " ", "A", "c", "t", "i", "o", "n", " ", "B", "u", "t", "t", "o", "n">>
    /\ nfKey = <<"f", "l", "o", "a", "t", "i", "n", "g", "-", "a", "c", "t", "i", "o", "n", "-", "b", "u", "t", "t", "o", "n">>
    /\ nfTitle = <<"F", "l", "o", "a", "t", "i", "n", "g", " ", "A", "c", "t", "i", "o", "n", " ", "B", "u", "t", "t", "o", "n">>

\* C10: the key of a catalog name holds no whitespace and no upper-case
\* character, and the key of a key is that key.
C10_NormalForm ==
    nfStage \in {"key", "title"} =>
        /\ nfIn \in ComponentSet =>
              \A i \in 1..Len(nfKey) : ~IsWhitespace(nfKey[i]) /\ ~IsUpper(nfKey[i])
        /\ nfIsKey => nfKey = nfIn

C10_Witness ==
    /\ nfStage = "key"
    /\ nfIsKey
    /\ nfIn = <<"c", "l", "i", "c", "k", "-", "a", "w", "a", "y", "-", "l", "i", "s", "t", "e", "n", "e", "r">>
    /\ nfKey = <<"c", "l", "i", "c", "k", "-", "a", "w", "a", "y", "-", "l", "i", "s", "t", "e", "n", "e", "r">>

----------------------------------------------------------------------------
(* Concurrent calls, under Spec *)

InFlight(c) == pc[c] \in {"awaitFetch", "awaitText"}

\* the result of a settled call, read off its own tool, argument, response
\* and body alone
OwnResult(c) ==
    /\ ReturnedText(c)
    /\ IsListCall(c) =>
          /\ TextOf(c).total = 56
          /\ \A i \in 1..56 : TextOf(c).componentList[i].name = COMPONENTS[i]
    /\ IsSearchCall(c) =>
          /\ TextOf(c).query = arg[c]
          /\ IF ExpectedMatches(arg[c]) = {}
             THEN "resultList" \notin DOMAIN TextOf(c)
             ELSE { TextOf(c).resultList[i].name : i \in 1..Len(TextOf(c).resultList) }
                      = ExpectedMatches(arg[c])
    /\ IsInfoCall(c) =>
          /\ response[c].kind = "rejected" =>
                TextOf(c).message = response[c].error.message
          /\ response[c].kind = "response" /\ response[c].status \notin 200..299 =>
                TextOf(c).component = arg[c]
          /\ html[c].kind = "rejected" => TextOf(c).message = html[c].error.message
          /\ html[c].kind = "text" /\ ReturnedBlock(c) =>
                /\ TextOf(c).url = <<"h", "t", "t", "p", "s", ":", "/", "/", "m", "u", "i", ".", "c", "o", "m", "/", "m", "a", "t", "e", "r", "i", "a", "l", "-", "u", "i", "/", "r", "e", "a", "c", "t", "-">> \o arg[c] \o <<"/">>
                /\ TextOf(c).componentTitle = componentTitle(arg[c])
                /\ \A d \in FewPages :
                      html[c].text = Rendered[d] =>
                          TextOf(c).description =
                              ExpectedDescription(d, <<"C", "o", "m", "p", "o", "n", "e", "n", "t", " ", "d", "e", "s", "c", "r", "i", "p", "t", "i", "o", "n", " ", "n", "o", "t", " ", "a", "v", "a", "i", "l", "a", "b", "l", "e">>)

\* call d can take its next step whatever the other calls wait for: start
\* a search or a lookup, have its fetch settle in any way, have its body
\* read fail, hand its result to the host
NotBlocked(d) ==
    /\ pc[d] = "idle" =>
          /\ ENABLED SearchComponents(d, <<"z", "z", "z", "-", "n", "o", "n", "e", "x", "i", "s", "t", "e", "n", "t">>)
          /\ Len(lookups) < MaxLookups =>
                \A component \in FewComponents : ENABLED GetComponentInfo(d, component)
    /\ pc[d] = "awaitFetch" => \A r \in FetchOutcomes : ENABLED FetchSettles(d, r)
    /\ pc[d] = "awaitText" => \A e \in BodyErrors : ENABLED TextSettles(d, Rejected(e))
    /\ pc[d] = "done" => ENABLED Deliver(d)

\* C11: in every state of every interleaving of two calls the catalog and
\* the category map are as constructed; while a call's fetch or body read
\* has not settled the other call can still start, have its own fetch and
\* body read settle and return; and the result of every settled call is the
\* one its own argument, response and body give, the same for two calls
\* that had the same ones.
C11_Isolation ==
    /\ components = COMPONENTS
    /\ componentMap = COMPONENT_MAP
    /\ \A c \in Calls : Settled(c) => OwnResult(c)
    /\ \A c, d \in Calls : c # d /\ InFlight(c) => NotBlocked(d)
    /\ \A c, d \in Calls :
          /\ Settled(c) /\ Settled(d)
          /\ tool[c] = tool[d] /\ arg[c] = arg[d]
          /\ response[c] = response[d] /\ html[c] = html[d]
          => result[c] = result[d]

C11_Witness ==
    \E c, d \in Calls :
        /\ c # d
        /\ pc[c] = "awaitFetch"
        /\ IsInfoCall(d) /\ Settled(d) /\ ReturnedBlock(d)
        /\ lookups = << <<"b", "u", "t", "t", "o", "n">>, <<"t", "e", "x", "t", "-", "f", "i", "e", "l", "d">> >>
        /\ arg[c] = <<"b", "u", "t", "t", "o", "n">>
        /\ arg[d] = <<"t", "e", "x", "t", "-", "f", "i", "e", "l", "d">>
        /\ TextOf(d).url = <<"h", "t", "t", "p", "s", ":", "/", "/", "m", "u", "i", ".", "c", "o", "m", "/", "m", "a", "t", "e", "r", "i", "a", "l", "-", "u", "i", "/", "r", "e", "a", "c", "t", "-", "t", "e", "x", "t", "-", "f", "i", "e", "l", "d", "/">>
        /\ components = COMPONENTS

----------------------------------------------------------------------------
(* Search results against the enumeration, under SpecSearch *)

\* C12 as stated: every name a search returns is a name of the catalog
\* list, the list list_components prints.
C12_Original ==
    \A c \in Calls :
        IsSearchCall(c) /\ Settled(c) /\ "resultList" \in DOMAIN TextOf(c) =>
            \A i \in 1..Len(TextOf(c).resultList) :
                \E j \in 1..Len(components) :
                    TextOf(c).resultList[i].name = components[j]

====
